---- MODULE Spec2Model ----
(***************************************************************************)
(* BarcodeDetectionService (src/services/BarcodeDetectionService.ts):      *)
(* the scanning lifecycle (startScanning / stopScanning, the getUserMedia  *)
(* promise, the detectBarcodes loop, the barcodeSubject channel) and the   *)
(* format catalog (getSupportedFormats).                                   *)
(*                                                                         *)
(* JavaScript runs the service single-threaded: every method call and      *)
(* every promise/animation-frame callback runs to completion, so each is   *)
(* one atomic action.  The host (camera, detector, display refresh, the    *)
(* callers and the subscribers) is the nondeterministic environment.       *)
(***************************************************************************)
EXTENDS Integers, Sequences, FiniteSets, TLC

VARIABLES
    windowHasBarcodeDetector,     \* host: 'BarcodeDetector' in window
    isBarcodeDetectionSupported,  \* field, line 10
    scannerActive,                \* field, line 11
    videoElement,                 \* field, line 12
    detector,                     \* field, line 13
    barcodeSubject,               \* field, line 14 (an RxJS Subject)
    mediaStream,                  \* field, line 15
    supportedFormats,             \* field, line 16
    gumRequests,                  \* host: every getUserMedia() promise issued, in order
    liveTracks,                   \* host: the acquired streams whose tracks still run
    srcObject,                    \* host: srcObject of every video element
    detectPending,                \* host: detector.detect() promises in flight
    detectCalls,                  \* host: number of detector.detect() calls made
    rafPending,                   \* host: requestAnimationFrame callbacks scheduled
    subscribers,                  \* callers: what each subscriber has been delivered
    reportedFormats,              \* host: what BarcodeDetector.getSupportedFormats() reports
    queryCount,                   \* host: number of BarcodeDetector.getSupportedFormats() calls
    lastOp                        \* the method or callback that ran last, with its inputs and result

vars == <<windowHasBarcodeDetector, isBarcodeDetectionSupported, scannerActive,
          videoElement, detector, barcodeSubject, mediaStream, supportedFormats,
          gumRequests, liveTracks, srcObject, detectPending, detectCalls,
          rafPending, subscribers, reportedFormats, queryCount, lastOp>>

scanVars == <<scannerActive, videoElement, barcodeSubject, mediaStream,
              gumRequests, liveTracks, srcObject, detectPending, detectCalls,
              rafPending, subscribers>>

catalogVars == <<supportedFormats, queryCount>>

envVars == <<windowHasBarcodeDetector, isBarcodeDetectionSupported, detector,
             reportedFormats>>

---------------------------------------------------------------------------
(* Bounds of the model *)

\* getUserMedia() requests one run may issue
MaxRequests == 2
\* detector.detect() calls one run may make
MaxFrames == 2
\* BarcodeDetector.getSupportedFormats() calls one run may make
MaxQueries == 3
\* longest format list the host reports
MaxFormats == 3

---------------------------------------------------------------------------
(* Values *)

Null == "null"
NoError == "none"

\* the video elements callers pass to startScanning
Sinks == {"video1", "video2"}
\* the callers subscribing to the returned Observable
Subscribers == {"sub1", "sub2"}
\* rawValue of the barcodes the detector reports
RawValues == {"4006381333931", "96385074"}
\* the arrays detector.detect() resolves with: none, one, several barcodes
DetectResults ==
    { <<>>, <<"4006381333931">>, <<"96385074", "4006381333931">> }
\* the errors getUserMedia() rejects with
AcquisitionErrors == {"NotAllowedError", "NotReadableError"}
UnsupportedError == "Barcode Detection API is not supported in this browser"

\* a MediaStream is named by the request that yielded it
StreamOf(r) == "stream" \o ToString(r)

\* format identifiers, as the characters they are made of
Ean13 == <<"e", "a", "n", "_", "1", "3">>
QrCode == <<"q", "r", "_", "c", "o", "d", "e">>
UpcA == <<"u", "p", "c", "_", "a">>
XyzCode == <<"x", "y", "z", "_", "c", "o", "d", "e">>
GsDataBar == <<"g", "s", "_", "1", "_", "d", "b">>
FormatIds == {Ean13, QrCode, UpcA, XyzCode, GsDataBar}

RECURSIVE SeqsUpTo(_, _)
SeqsUpTo(S, n) ==
    IF n = 0 THEN { <<>> }
    ELSE LET shorter == SeqsUpTo(S, n - 1)
         IN  shorter \cup { Append(q, x) : q \in shorter, x \in S }

---------------------------------------------------------------------------
(* The RxJS Subject behind barcodeSubject *)

NewSubject ==
    [id |-> 1, isStopped |-> FALSE, hasError |-> FALSE,
     thrownError |-> NoError, observers |-> <<>>]

NewSubscriber == [state |-> "idle", received |-> <<>>, error |-> NoError]

InObservers(subject, s) == \E i \in DOMAIN subject.observers : subject.observers[i] = s

\* Subject.next(value): delivered to every observer unless the subject is stopped
SubjectNext(subject, subs, value) ==
    IF subject.isStopped THEN subs
    ELSE [s \in Subscribers |->
            IF InObservers(subject, s)
            THEN [subs[s] EXCEPT !.received = Append(@, value)]
            ELSE subs[s]]

\* a Subject.error(err) that records the error and leaves the subject open
SubjectErrorLeavesOpen(subject, err) ==
    IF subject.isStopped THEN subject
    ELSE [subject EXCEPT !.hasError = TRUE, !.thrownError = err]

\* Subject.error(err), the subject afterwards: stopped, errored, observers dropped
SubjectError(subject, err) ==
    IF subject.isStopped THEN subject
    ELSE [subject EXCEPT !.isStopped = TRUE, !.hasError = TRUE,
                         !.thrownError = err, !.observers = <<>>]

\* Subject.error(err), the subscribers afterwards: every observer is delivered err
SubjectErrorDelivery(subject, subs, err) ==
    IF subject.isStopped THEN subs
    ELSE [s \in Subscribers |->
            IF InObservers(subject, s)
            THEN [subs[s] EXCEPT !.state = "errored", !.error = err]
            ELSE subs[s]]

---------------------------------------------------------------------------
(* Construction *)

\* the field initialisers (lines 11-16) and the constructor (lines 19-29)
InitService ==
    /\ isBarcodeDetectionSupported = windowHasBarcodeDetector
    /\ detector = IF windowHasBarcodeDetector THEN "BarcodeDetector" ELSE Null
    /\ scannerActive = FALSE
    /\ videoElement = Null
    /\ barcodeSubject = NewSubject
    /\ mediaStream = Null
    /\ supportedFormats = <<>>

\* the host before any call was made
InitHost ==
    /\ gumRequests = <<>>
    /\ liveTracks = {}
    /\ srcObject = [v \in Sinks |-> Null]
    /\ detectPending = {}
    /\ detectCalls = 0
    /\ rafPending = 0
    /\ subscribers = [s \in Subscribers |-> NewSubscriber]
    /\ queryCount = 0
    /\ lastOp = [op |-> "constructor", info |-> Null]

Init ==
    /\ windowHasBarcodeDetector \in BOOLEAN
    /\ reportedFormats = <<Ean13, QrCode>>
    /\ InitService
    /\ InitHost

---------------------------------------------------------------------------
(* Public surface *)

isSupported == isBarcodeDetectionSupported

isScannerActive == scannerActive

PendingRequests == { r \in DOMAIN gumRequests : gumRequests[r] = "pending" }

\* startScanning, lines 45-48: the capability is absent
startUnsupported(v) ==
    /\ barcodeSubject' = SubjectError(barcodeSubject, UnsupportedError)
    /\ subscribers' = SubjectErrorDelivery(barcodeSubject, subscribers, UnsupportedError)
    /\ UNCHANGED <<scannerActive, videoElement, gumRequests>>
    /\ lastOp' = [op |-> "startScanning",
                  info |-> [branch |-> "unsupported", sink |-> v,
                            ret |-> barcodeSubject.id]]

\* startScanning, lines 50-52: a session is already active
startAlreadyActive(v) ==
    /\ UNCHANGED <<barcodeSubject, subscribers, scannerActive, videoElement, gumRequests>>
    /\ lastOp' = [op |-> "startScanning",
                  info |-> [branch |-> "active", sink |-> v,
                            ret |-> barcodeSubject.id]]

\* startScanning, lines 54-66 and 83: a session starts and getUserMedia() is called
startAcquire(v) ==
    /\ Len(gumRequests) < MaxRequests
    /\ scannerActive' = TRUE
    /\ videoElement' = v
    /\ gumRequests' = Append(gumRequests, "pending")
    /\ UNCHANGED <<barcodeSubject, subscribers>>
    /\ lastOp' = [op |-> "startScanning",
                  info |-> [branch |-> "started", sink |-> v,
                            ret |-> barcodeSubject.id]]

\* what no branch of startScanning touches
startFrame ==
    /\ UNCHANGED <<mediaStream, liveTracks, srcObject, detectPending, detectCalls,
                   rafPending>>
    /\ UNCHANGED <<envVars, catalogVars>>

\* startScanning without the capability check of lines 45-48
startScanningNoSupportCheck(v) ==
    /\ IF scannerActive THEN startAlreadyActive(v) ELSE startAcquire(v)
    /\ startFrame

\* startScanning without the re-entry check of lines 50-52
startScanningNoActiveCheck(v) ==
    /\ IF ~isBarcodeDetectionSupported THEN startUnsupported(v) ELSE startAcquire(v)
    /\ startFrame

\* startScanning with the assignment of line 57 moved above the checks
startScanningRebinds(v) ==
    /\ IF ~isBarcodeDetectionSupported
       THEN /\ barcodeSubject' = SubjectError(barcodeSubject, UnsupportedError)
            /\ subscribers' = SubjectErrorDelivery(barcodeSubject, subscribers,
                                                   UnsupportedError)
            /\ videoElement' = v
            /\ UNCHANGED <<scannerActive, gumRequests>>
            /\ lastOp' = [op |-> "startScanning",
                          info |-> [branch |-> "unsupported", sink |-> v,
                                    ret |-> barcodeSubject.id]]
       ELSE IF scannerActive
       THEN /\ videoElement' = v
            /\ UNCHANGED <<barcodeSubject, subscribers, scannerActive, gumRequests>>
            /\ lastOp' = [op |-> "startScanning",
                          info |-> [branch |-> "active", sink |-> v,
                                    ret |-> barcodeSubject.id]]
       ELSE startAcquire(v)
    /\ startFrame

\* startScanning(videoElementRef), lines 44-84
startScanning(v) ==
    /\ IF ~isBarcodeDetectionSupported THEN startUnsupported(v)
       ELSE IF scannerActive THEN startAlreadyActive(v)
       ELSE startAcquire(v)
    /\ startFrame

\* stopScanning without the track.stop() of line 94
stopScanningKeepsTracks ==
    /\ scannerActive' = FALSE
    /\ mediaStream' = Null
    /\ UNCHANGED liveTracks
    /\ IF videoElement # Null
       THEN /\ srcObject' = [srcObject EXCEPT ![videoElement] = Null]
            /\ videoElement' = Null
       ELSE UNCHANGED <<srcObject, videoElement>>
    /\ lastOp' = [op |-> "stopScanning",
                  info |-> [sink |-> videoElement, stream |-> mediaStream]]
    /\ UNCHANGED <<barcodeSubject, subscribers, gumRequests, detectPending,
                   detectCalls, rafPending>>
    /\ UNCHANGED <<envVars, catalogVars>>

\* stopScanning(), lines 89-102
stopScanning ==
    /\ scannerActive' = FALSE
    /\ IF mediaStream # Null
       THEN /\ liveTracks' = liveTracks \ {mediaStream}
            /\ mediaStream' = Null
       ELSE UNCHANGED <<liveTracks, mediaStream>>
    /\ IF videoElement # Null
       THEN /\ srcObject' = [srcObject EXCEPT ![videoElement] = Null]
            /\ videoElement' = Null
       ELSE UNCHANGED <<srcObject, videoElement>>
    /\ lastOp' = [op |-> "stopScanning",
                  info |-> [sink |-> videoElement, stream |-> mediaStream]]
    /\ UNCHANGED <<barcodeSubject, subscribers, gumRequests, detectPending,
                   detectCalls, rafPending>>
    /\ UNCHANGED <<envVars, catalogVars>>

\* detectBarcodes without the guard of line 108
detectBarcodesNoGuard ==
    /\ detectCalls < MaxFrames
    /\ detectCalls' = detectCalls + 1
    /\ detectPending' = detectPending \cup {detectCalls + 1}

\* detectBarcodes(), lines 107-111: the guard and the detect() call it submits
detectBarcodes ==
    IF ~scannerActive \/ videoElement = Null \/ detector = Null
    THEN UNCHANGED <<detectPending, detectCalls>>
    ELSE /\ detectCalls < MaxFrames
         /\ detectCalls' = detectCalls + 1
         /\ detectPending' = detectPending \cup {detectCalls + 1}

\* getUserMedia(...).then(stream => ...), lines 67-77
getUserMediaThen(r) ==
    /\ r \in PendingRequests
    /\ gumRequests' = [gumRequests EXCEPT ![r] = "fulfilled"]
    /\ liveTracks' = liveTracks \cup {StreamOf(r)}
    /\ mediaStream' = StreamOf(r)
    /\ IF videoElement # Null
       THEN /\ srcObject' = [srcObject EXCEPT ![videoElement] = StreamOf(r)]
            /\ detectBarcodes
       ELSE UNCHANGED <<srcObject, detectPending, detectCalls>>
    /\ lastOp' = [op |-> "getUserMediaThen", info |-> [request |-> r]]
    /\ UNCHANGED <<scannerActive, videoElement, barcodeSubject, subscribers, rafPending>>
    /\ UNCHANGED <<envVars, catalogVars>>

\* getUserMedia(...).catch(error => ...), lines 78-81.  Nothing in the handler
\* of lines 67-77 throws, so this runs exactly when getUserMedia() rejects.
getUserMediaCatch(r, error) ==
    /\ r \in PendingRequests
    /\ gumRequests' = [gumRequests EXCEPT ![r] = "rejected"]
    /\ scannerActive' = FALSE
    /\ barcodeSubject' = SubjectError(barcodeSubject, error)
    /\ subscribers' = SubjectErrorDelivery(barcodeSubject, subscribers, error)
    /\ lastOp' = [op |-> "getUserMediaCatch",
                  info |-> [request |-> r, error |-> error,
                            observers |-> barcodeSubject.observers]]
    /\ UNCHANGED <<videoElement, mediaStream, liveTracks, srcObject, detectPending,
                   detectCalls, rafPending>>
    /\ UNCHANGED <<envVars, catalogVars>>

\* what neither handler of detect() touches
detectFrame ==
    /\ UNCHANGED <<scannerActive, videoElement, barcodeSubject, mediaStream,
                   gumRequests, liveTracks, srcObject, detectCalls>>
    /\ UNCHANGED <<envVars, catalogVars>>

\* the then-handler emitting the last barcode of the frame instead of the first
detectThenEmitsLast(f, barcodes) ==
    /\ f \in detectPending
    /\ detectPending' = detectPending \ {f}
    /\ subscribers' = IF Len(barcodes) > 0
                      THEN SubjectNext(barcodeSubject, subscribers, barcodes[Len(barcodes)])
                      ELSE subscribers
    /\ rafPending' = IF scannerActive THEN rafPending + 1 ELSE rafPending
    /\ lastOp' = [op |-> "detectThen",
                  info |-> [frame |-> f, barcodes |-> barcodes, active |-> scannerActive]]
    /\ detectFrame

\* the then-handler with the rescheduling of lines 119-122 inside the if of line 114
detectThenReschedulesOnMatch(f, barcodes) ==
    /\ f \in detectPending
    /\ detectPending' = detectPending \ {f}
    /\ subscribers' = IF Len(barcodes) > 0
                      THEN SubjectNext(barcodeSubject, subscribers, barcodes[1])
                      ELSE subscribers
    /\ rafPending' = IF Len(barcodes) > 0 /\ scannerActive
                     THEN rafPending + 1 ELSE rafPending
    /\ lastOp' = [op |-> "detectThen",
                  info |-> [frame |-> f, barcodes |-> barcodes, active |-> scannerActive]]
    /\ detectFrame

\* detector.detect(...).then(barcodes => ...), lines 112-123
detectThen(f, barcodes) ==
    /\ f \in detectPending
    /\ detectPending' = detectPending \ {f}
    /\ subscribers' = IF Len(barcodes) > 0
                      THEN SubjectNext(barcodeSubject, subscribers, barcodes[1])
                      ELSE subscribers
    /\ rafPending' = IF scannerActive THEN rafPending + 1 ELSE rafPending
    /\ lastOp' = [op |-> "detectThen",
                  info |-> [frame |-> f, barcodes |-> barcodes, active |-> scannerActive]]
    /\ UNCHANGED <<scannerActive, videoElement, barcodeSubject, mediaStream,
                   gumRequests, liveTracks, srcObject, detectCalls>>
    /\ UNCHANGED <<envVars, catalogVars>>

\* the catch-handler reporting the error on the channel instead of the console
detectCatchTerminates(f) ==
    /\ f \in detectPending
    /\ detectPending' = detectPending \ {f}
    /\ barcodeSubject' = SubjectError(barcodeSubject, "DetectionError")
    /\ subscribers' = SubjectErrorDelivery(barcodeSubject, subscribers, "DetectionError")
    /\ rafPending' = IF scannerActive THEN rafPending + 1 ELSE rafPending
    /\ lastOp' = [op |-> "detectCatch", info |-> [frame |-> f, active |-> scannerActive]]
    /\ UNCHANGED <<scannerActive, videoElement, mediaStream, gumRequests, liveTracks,
                   srcObject, detectCalls>>
    /\ UNCHANGED <<envVars, catalogVars>>

\* detector.detect(...).catch(error => ...), lines 124-130
detectCatch(f) ==
    /\ f \in detectPending
    /\ detectPending' = detectPending \ {f}
    /\ rafPending' = IF scannerActive THEN rafPending + 1 ELSE rafPending
    /\ lastOp' = [op |-> "detectCatch", info |-> [frame |-> f, active |-> scannerActive]]
    /\ UNCHANGED <<scannerActive, videoElement, barcodeSubject, mediaStream,
                   gumRequests, liveTracks, srcObject, detectCalls, subscribers>>
    /\ UNCHANGED <<envVars, catalogVars>>

\* the callback () => this.detectBarcodes() given to requestAnimationFrame, lines 121, 128
animationFrame ==
    /\ rafPending > 0
    /\ rafPending' = rafPending - 1
    /\ detectBarcodes
    /\ lastOp' = [op |-> "animationFrame", info |-> [submitted |-> detectCalls' # detectCalls]]
    /\ UNCHANGED <<scannerActive, videoElement, barcodeSubject, mediaStream,
                   gumRequests, liveTracks, srcObject, subscribers>>
    /\ UNCHANGED <<envVars, catalogVars>>

\* a caller subscribes to the Observable startScanning returned (asObservable(), lines 47, 51, 83)
subscribe(s) ==
    /\ subscribers[s].state = "idle"
    /\ IF barcodeSubject.hasError
       THEN /\ subscribers' = [subscribers EXCEPT ![s].state = "errored",
                                                  ![s].error = barcodeSubject.thrownError]
            /\ UNCHANGED barcodeSubject
       ELSE /\ subscribers' = [subscribers EXCEPT ![s].state = "subscribed"]
            /\ barcodeSubject' = [barcodeSubject EXCEPT !.observers = Append(@, s)]
    /\ lastOp' = [op |-> "subscribe", info |-> [subscriber |-> s]]
    /\ UNCHANGED <<scannerActive, videoElement, mediaStream, gumRequests, liveTracks,
                   srcObject, detectPending, detectCalls, rafPending>>
    /\ UNCHANGED <<envVars, catalogVars>>

Next ==
    \/ \E v \in Sinks : startScanning(v)
    \/ stopScanning
    \/ \E r \in DOMAIN gumRequests : getUserMediaThen(r)
    \/ \E r \in DOMAIN gumRequests, error \in AcquisitionErrors : getUserMediaCatch(r, error)
    \/ \E f \in detectPending, barcodes \in DetectResults : detectThen(f, barcodes)
    \/ \E f \in detectPending : detectCatch(f)
    \/ animationFrame
    \/ \E s \in Subscribers : subscribe(s)

Spec == Init /\ [][Next]_vars

---------------------------------------------------------------------------
(* Format catalog *)

\* getSupportedFormats(), lines 137-149.  The query is made when the method is
\* called (it is the argument of from()); fails chooses whether the host's
\* promise rejects.  No line of the service assigns supportedFormats.
getSupportedFormats(fails) ==
    /\ IF ~isBarcodeDetectionSupported
       THEN /\ UNCHANGED queryCount
            /\ lastOp' = [op |-> "getSupportedFormats",
                          info |-> [queried |-> FALSE, kind |-> "next", value |-> <<>>]]
       ELSE IF Len(supportedFormats) > 0
       THEN /\ UNCHANGED queryCount
            /\ lastOp' = [op |-> "getSupportedFormats",
                          info |-> [queried |-> FALSE, kind |-> "next",
                                    value |-> supportedFormats]]
       ELSE /\ queryCount < MaxQueries
            /\ queryCount' = queryCount + 1
            /\ lastOp' = [op |-> "getSupportedFormats",
                          info |-> [queried |-> TRUE,
                                    kind |-> IF fails THEN "error" ELSE "next",
                                    value |-> IF fails THEN <<>> ELSE reportedFormats]]
    /\ UNCHANGED supportedFormats
    /\ UNCHANGED <<envVars, scanVars>>

LowerCase == <<"a", "b", "c", "d", "e", "f", "g", "h", "i", "j", "k", "l", "m", "n", "o", "p", "q", "r", "s", "t", "u", "v", "w", "x", "y", "z">>
UpperCase == <<"A", "B", "C", "D", "E", "F", "G", "H", "I", "J", "K", "L", "M", "N", "O", "P", "Q", "R", "S", "T", "U", "V", "W", "X", "Y", "Z">>

\* String.prototype.toUpperCase(), one character
ToUpperChar(c) ==
    IF \E i \in DOMAIN LowerCase : LowerCase[i] = c
    THEN UpperCase[CHOOSE i \in DOMAIN LowerCase : LowerCase[i] = c]
    ELSE c

\* String.prototype.toUpperCase()
ToUpperCase(str) == [i \in DOMAIN str |-> ToUpperChar(str[i])]

\* String.prototype.replace(pattern, by) with a string pattern of one
\* character: only the first occurrence is replaced
ReplaceFirst(str, pattern, by) ==
    IF \E i \in DOMAIN str : str[i] = pattern
    THEN LET first == CHOOSE i \in DOMAIN str :
                         /\ str[i] = pattern
                         /\ \A j \in 1..(i - 1) : str[j] # pattern
         IN  [str EXCEPT ![first] = by]
    ELSE str

\* the switch of lines 165-180
FormatLabel(format) ==
    CASE
         format = <<"a", "z", "t", "e", "c">> ->
           <<"A", "z", "t", "e", "c">>
      [] format = <<"c", "o", "d", "e", "_", "1", "2", "8">> ->
           <<"C", "o", "d", "e", " ", "1", "2", "8">>
      [] format = <<"c", "o", "d", "e", "_", "3", "9">> ->
           <<"C", "o", "d", "e", " ", "3", "9">>
      [] format = <<"c", "o", "d", "e", "_", "9", "3">> ->
           <<"C", "o", "d", "e", " ", "9", "3">>
      [] format = <<"c", "o", "d", "a", "b", "a", "r">> ->
           <<"C", "o", "d", "a", "b", "a", "r">>
      [] format = <<"d", "a", "t", "a", "_", "m", "a", "t", "r", "i", "x">> ->
           <<"D", "a", "t", "a", " ", "M", "a", "t", "r", "i", "x">>
      [] format = <<"e", "a", "n", "_", "1", "3">> ->
           <<"E", "A", "N", "-", "1", "3">>
      [] format = <<"e", "a", "n", "_", "8">> ->
           <<"E", "A", "N", "-", "8">>
      [] format = <<"i", "t", "f">> ->
           <<"I", "T", "F">>
      [] format = <<"p", "d", "f", "4", "1", "7">> ->
           <<"P", "D", "F", "4", "1", "7">>
      [] format = <<"q", "r", "_", "c", "o", "d", "e">> ->
           <<"Q", "R", " ", "C", "o", "d", "e">>
      [] format = <<"u", "p", "c", "_", "a">> ->
           <<"U", "P", "C", "-", "A">>
      [] format = <<"u", "p", "c", "_", "e">> ->
           <<"U", "P", "C", "-", "E">>
      [] OTHER -> ToUpperCase(ReplaceFirst(format, "_", " "))

\* Array.prototype.join(separator)
RECURSIVE Join(_, _)
Join(strs, separator) ==
    IF Len(strs) = 0 THEN <<>>
    ELSE IF Len(strs) = 1 THEN strs[1]
    ELSE strs[1] \o separator \o Join(Tail(strs), separator)

NoFormatsSupported == <<"N", "o", " ", "f", "o", "r", "m", "a", "t", "s", " ", "s", "u", "p", "p", "o", "r", "t", "e", "d">>

\* the map() callback of lines 157-182
FormatList(formats) ==
    IF Len(formats) = 0 THEN NoFormatsSupported
    ELSE Join([i \in DOMAIN formats |-> FormatLabel(formats[i])], <<",", " ">>)

\* getFormattedSupportedFormats(), lines 154-184: getSupportedFormats() is
\* called (with its query, when it makes one), catchError turns a failure
\* into the empty list, and map() formats what is left
getFormattedSupportedFormats(fails) ==
    LET queries == isBarcodeDetectionSupported /\ Len(supportedFormats) = 0
        formats == IF ~isBarcodeDetectionSupported THEN <<>>
                   ELSE IF Len(supportedFormats) > 0 THEN supportedFormats
                   ELSE IF fails THEN <<>>
                   ELSE reportedFormats
    IN  /\ IF queries
           THEN /\ queryCount < MaxQueries
                /\ queryCount' = queryCount + 1
           ELSE UNCHANGED queryCount
        /\ lastOp' = [op |-> "getFormattedSupportedFormats",
                      info |-> [queried |-> queries, failed |-> queries /\ fails,
                                formats |-> formats, kind |-> "next",
                                value |-> FormatList(formats)]]
        /\ UNCHANGED supportedFormats
        /\ UNCHANGED <<envVars, scanVars>>

InitCatalog ==
    /\ windowHasBarcodeDetector \in BOOLEAN
    /\ reportedFormats \in SeqsUpTo(FormatIds, MaxFormats)
    /\ InitService
    /\ InitHost

NextCatalog ==
    \/ \E fails \in BOOLEAN : getSupportedFormats(fails)
    \/ \E fails \in BOOLEAN : getFormattedSupportedFormats(fails)

\* The catalog shares no field with the scanning lifecycle, so it is checked on
\* its own, over every format list the host may report.
SpecCatalog == InitCatalog /\ [][NextCatalog]_vars

---------------------------------------------------------------------------
(* Properties *)

LastRequest == gumRequests[Len(gumRequests)]

HasSubscribed(s) == subscribers[s].state # "idle"

\* C1: where the detection capability is absent, isSupported() is false, and
\* every startScanning call leaves the channel in its terminal error state and
\* returns it, with no getUserMedia() request ever issued and active never set.
C1_UnsupportedNeverAcquires ==
    ~windowHasBarcodeDetector =>
        /\ isSupported = FALSE
        /\ gumRequests = <<>>
        /\ isScannerActive = FALSE
        /\ lastOp.op = "startScanning" =>
              /\ barcodeSubject.isStopped
              /\ barcodeSubject.hasError
              /\ barcodeSubject.thrownError = UnsupportedError
              /\ lastOp.info.ret = barcodeSubject.id

\* C1 happens: startScanning was called without the capability, and a
\* subscriber of the channel was delivered the error
C1_Witness ==
    /\ ~windowHasBarcodeDetector
    /\ lastOp.op = "startScanning"
    /\ \E s \in Subscribers : subscribers[s].error = UnsupportedError

\* C2: a startScanning call made while the session is active issues no
\* getUserMedia() request and returns the existing channel, unchanged.
C2_ReentrantStartIsNoOp ==
    [][(scannerActive /\ lastOp'.op = "startScanning") =>
          /\ gumRequests' = gumRequests
          /\ barcodeSubject' = barcodeSubject
          /\ lastOp'.info.ret = barcodeSubject.id]_vars

\* C2 happens: startScanning was called again after the acquisition of the
\* active session completed
C2_Witness ==
    /\ lastOp.op = "startScanning"
    /\ lastOp.info.branch = "active"
    /\ scannerActive
    /\ Len(gumRequests) = 1
    /\ LastRequest = "fulfilled"

\* C3: after stopScanning, whatever the state it was called in, active is
\* false, mediaStream and the video element are null, the video element it
\* held is detached and the stream it held has no running track; a second
\* stopScanning in a row changes nothing.
C3_StopReleases ==
    /\ [](lastOp.op = "stopScanning" =>
            /\ ~scannerActive
            /\ mediaStream = Null
            /\ videoElement = Null
            /\ lastOp.info.sink # Null => srcObject[lastOp.info.sink] = Null
            /\ lastOp.info.stream # Null => lastOp.info.stream \notin liveTracks)
    /\ [][(lastOp.op = "stopScanning" /\ lastOp'.op = "stopScanning") =>
            UNCHANGED scanVars]_vars

\* C3 happens: stopScanning was called on a session that held a stream bound
\* to a video element
C3_Witness ==
    /\ lastOp.op = "stopScanning"
    /\ lastOp.info.stream # Null
    /\ lastOp.info.sink # Null

\* C4: mediaStream is non-null only while active is true.
C4_StreamOnlyWhileActive ==
    mediaStream # Null => scannerActive

\* C5: whenever the session is inactive and no acquisition is pending, no
\* acquired stream has a running track and the video element reference is null.
C5_AllReleasedWhenInactive ==
    (~scannerActive /\ PendingRequests = {}) =>
        /\ liveTracks = {}
        /\ videoElement = Null

\* C6: when a getUserMedia() request fails, the session is inactive and holds
\* no media stream, and the channel is terminated with that request's error,
\* which every subscriber subscribed at that moment has been delivered.
C6_FailureRollsBack ==
    lastOp.op = "getUserMediaCatch" =>
        /\ ~scannerActive
        /\ mediaStream = Null
        /\ barcodeSubject.hasError
        /\ barcodeSubject.thrownError = lastOp.info.error
        /\ \A i \in DOMAIN lastOp.info.observers :
              subscribers[lastOp.info.observers[i]].error = lastOp.info.error

\* C7: at most one getUserMedia() request is outstanding at any time.
C7_AtMostOnePending ==
    Cardinality(PendingRequests) <= 1

\* C8: once the channel is in its terminal error state, no step delivers a
\* value to any subscriber.
C8_NoValueAfterError ==
    [][barcodeSubject.hasError =>
          \A s \in Subscribers :
              subscribers'[s].received = subscribers[s].received]_vars

\* C8 happens: a detection with a match completed on a terminated channel
\* that a subscriber had subscribed to
C8_Witness ==
    /\ barcodeSubject.hasError
    /\ lastOp.op = "detectThen"
    /\ Len(lastOp.info.barcodes) > 0
    /\ \E s \in Subscribers : subscribers[s].state = "errored"

\* C9: after an acquisition failure terminated the channel, startScanning
\* starts a session again, and once its acquisition has succeeded every
\* detection with a match delivers the first match to the subscribers of the
\* returned stream.
C9_RestartDelivers ==
    barcodeSubject.thrownError \in AcquisitionErrors =>
        /\ lastOp.op = "startScanning" => scannerActive
        /\ (/\ lastOp.op = "detectThen"
            /\ Len(lastOp.info.barcodes) > 0
            /\ scannerActive
            /\ LastRequest = "fulfilled") =>
              \A s \in Subscribers :
                  HasSubscribed(s) =>
                      /\ subscribers[s].received # <<>>
                      /\ subscribers[s].received[Len(subscribers[s].received)]
                            = lastOp.info.barcodes[1]

\* C10: in a supported environment the capability is queried once: after a
\* getSupportedFormats call has returned the capability's list, the next call
\* returns the identical list and makes no further query.
C10_QueriedOnce ==
    [][(/\ windowHasBarcodeDetector
        /\ lastOp.op = "getSupportedFormats"
        /\ lastOp.info.kind = "next"
        /\ lastOp.info.value # <<>>
        /\ lastOp'.op = "getSupportedFormats") =>
          /\ queryCount' = queryCount
          /\ lastOp'.info.kind = "next"
          /\ lastOp'.info.value = lastOp.info.value]_vars

\* String.prototype.replaceAll(pattern, by): every occurrence is replaced
ReplaceEvery(str, pattern, by) ==
    [i \in DOMAIN str |-> IF str[i] = pattern THEN by ELSE str[i]]

\* the identifiers the table of lines 166-178 renders otherwise than the fall-back
IsMapped(format) == FormatLabel(format) # ToUpperCase(ReplaceFirst(format, "_", " "))

\* the rendering C11 describes: the table's label for a mapped identifier,
\* the uppercased identifier with its underscores replaced by spaces otherwise
ClaimedLabel(format) ==
    IF IsMapped(format) THEN FormatLabel(format)
    ELSE ToUpperCase(ReplaceEvery(format, "_", " "))

\* C11: getFormattedSupportedFormats yields, for the (non-empty) list the
\* capability reports, the table's label of each mapped identifier and the
\* uppercased, underscores-to-spaces form of each unmapped one, joined in
\* order with ", "; ["ean_13","upc_a","xyz_code"] yields "EAN-13, UPC-A, XYZ CODE".
C11_FormattedList ==
    (/\ lastOp.op = "getFormattedSupportedFormats"
     /\ windowHasBarcodeDetector
     /\ ~lastOp.info.failed
     /\ reportedFormats # <<>>) =>
        /\ lastOp.info.value =
              Join([i \in DOMAIN reportedFormats |-> ClaimedLabel(reportedFormats[i])],
                   <<",", " ">>)
        /\ reportedFormats = <<Ean13, UpcA, XyzCode>> =>
              lastOp.info.value =
                 <<"E", "A", "N", "-", "1", "3", ",", " ", "U", "P", "C", "-", "A",
                   ",", " ", "X", "Y", "Z", " ", "C", "O", "D", "E">>

\* the example of C11 alone: it does hold
C11_Example ==
    (/\ lastOp.op = "getFormattedSupportedFormats"
     /\ windowHasBarcodeDetector
     /\ ~lastOp.info.failed
     /\ reportedFormats = <<Ean13, UpcA, XyzCode>>) =>
        lastOp.info.value =
           <<"E", "A", "N", "-", "1", "3", ",", " ", "U", "P", "C", "-", "A",
             ",", " ", "X", "Y", "Z", " ", "C", "O", "D", "E">>

\* C12: at most one detection loop runs: in total at most one detect() call
\* is in flight or one tick scheduled, and a detection that completes is the
\* oldest one in flight, so that values reach the channel in the order their
\* frames were submitted.
C12_SingleLoop ==
    /\ Cardinality(detectPending) + rafPending <= 1
    /\ lastOp.op = "detectThen" => \A g \in detectPending : g > lastOp.info.frame

\* C13: a detection that completes while active is false emits nothing on
\* the channel.
C13_LateResultDiscarded ==
    [][(lastOp'.op = "detectThen" /\ ~scannerActive) =>
          subscribers' = subscribers]_vars

\* a tick that runs while the session is active submits one more detect()
TickSubmitsWhileActive ==
    (lastOp'.op = "animationFrame" /\ scannerActive) =>
        /\ detectCalls' = detectCalls + 1
        /\ detectPending' = detectPending \cup {detectCalls'}

\* C14: a detection that succeeds with matches [m1, m2, ...] emits exactly
\* one value, m1's raw value: every observer of the channel is delivered m1
\* once, and nobody is delivered anything else.
C14_FirstMatchOnly ==
    [][(lastOp'.op = "detectThen" /\ Len(lastOp'.info.barcodes) > 0) =>
          \A s \in Subscribers :
              subscribers'[s].received =
                 IF InObservers(barcodeSubject, s)
                 THEN Append(subscribers[s].received, lastOp'.info.barcodes[1])
                 ELSE subscribers[s].received]_vars

\* C14 happens: a frame with two barcodes was detected and a subscriber was
\* delivered the first
C14_Witness ==
    /\ lastOp.op = "detectThen"
    /\ Len(lastOp.info.barcodes) = 2
    /\ \E s \in Subscribers :
          /\ InObservers(barcodeSubject, s)
          /\ subscribers[s].received # <<>>
          /\ subscribers[s].received[Len(subscribers[s].received)] = lastOp.info.barcodes[1]

\* C15: a detection that succeeds with zero matches emits nothing, and while
\* the session is active it schedules a tick, and the tick submits the next
\* detection.
C15_EmptyFramesKeepLooping ==
    [][/\ (lastOp'.op = "detectThen" /\ Len(lastOp'.info.barcodes) = 0) =>
             /\ subscribers' = subscribers
             /\ barcodeSubject' = barcodeSubject
             /\ scannerActive => rafPending' = rafPending + 1
       /\ TickSubmitsWhileActive]_vars

\* C15 happens: the second frame in a row came back with zero matches in an
\* active session, nothing was delivered, and a tick is scheduled
C15_Witness ==
    /\ lastOp.op = "detectThen"
    /\ Len(lastOp.info.barcodes) = 0
    /\ lastOp.info.frame = 2
    /\ scannerActive
    /\ rafPending = 1
    /\ \E s \in Subscribers :
          InObservers(barcodeSubject, s) /\ subscribers[s].received = <<>>

\* C16: a detection failure leaves the channel as it is and delivers nothing,
\* and while the session is active it schedules a tick, and the tick submits
\* the next detection.
C16_DetectionFailureAbsorbed ==
    [][/\ lastOp'.op = "detectCatch" =>
             /\ barcodeSubject' = barcodeSubject
             /\ subscribers' = subscribers
             /\ scannerActive => rafPending' = rafPending + 1
       /\ TickSubmitsWhileActive]_vars

\* C16 happens: a detection failed in an active session with a subscriber on
\* an open channel, and a tick is scheduled
C16_Witness ==
    /\ lastOp.op = "detectCatch"
    /\ scannerActive
    /\ rafPending = 1
    /\ ~barcodeSubject.isStopped
    /\ \E s \in Subscribers : InObservers(barcodeSubject, s)

\* C17: after stopScanning and until startScanning is called again (active
\* false, no video element bound), no step submits a detect() call or
\* schedules a tick, and the steps of the loop put no error on the channel.
C17_NoDetectionAfterStop ==
    [][(~scannerActive /\ videoElement = Null /\ lastOp'.op # "startScanning") =>
          /\ detectCalls' = detectCalls
          /\ detectPending' \subseteq detectPending
          /\ rafPending' <= rafPending
          /\ lastOp'.op \in {"animationFrame", "detectThen", "detectCatch"} =>
                barcodeSubject' = barcodeSubject]_vars

\* C17 happens: a tick scheduled before stopScanning ran after it and
\* submitted nothing
C17_Witness ==
    /\ ~scannerActive
    /\ videoElement = Null
    /\ lastOp.op = "animationFrame"
    /\ ~lastOp.info.submitted
    /\ detectCalls > 0

\* C18: the settling of a getUserMedia() request that is not the latest one
\* (its session was stopped and a later session started) neither deactivates
\* the active session, nor terminates the channel, nor replaces the media
\* stream the session holds.
C18_StaleOutcomeIgnored ==
    [][(/\ lastOp'.op \in {"getUserMediaThen", "getUserMediaCatch"}
        /\ lastOp'.info.request < Len(gumRequests)
        /\ scannerActive) =>
          /\ scannerActive'
          /\ barcodeSubject' = barcodeSubject
          /\ mediaStream # Null => mediaStream' = mediaStream]_vars

\* C19: a startScanning call that is ignored (capability absent, or session
\* already active) leaves active, the bound video element and mediaStream
\* unchanged, whatever video element it is passed.
C19_IgnoredStartChangesNothing ==
    [][(lastOp'.op = "startScanning" /\ (~isBarcodeDetectionSupported \/ scannerActive)) =>
          UNCHANGED <<scannerActive, videoElement, mediaStream>>]_vars

\* C19 happens: startScanning was called with another video element than the
\* one the active, streaming session is bound to
C19_Witness ==
    /\ lastOp.op = "startScanning"
    /\ lastOp.info.branch = "active"
    /\ videoElement # Null
    /\ lastOp.info.sink # videoElement
    /\ mediaStream # Null

====
